---- MODULE Spec2Model ----
(***************************************************************************)
(* A model of ldapfs: the FUSE callbacks of LdapFS (ldapfs.py), the name   *)
(* codecs (name.py, ldapdn.py), the Stat size computation (fs.py) and the  *)
(* Entry rendering and the Connection (ldapcon.py), and the Path           *)
(* classifier (name.py).                                                   *)
(*                                                                         *)
(* A Python string is a sequence of one-character strings, so that         *)
(* str.replace, str.split, str.strip and slicing act on characters as      *)
(* they do in the code.                                                    *)
(***************************************************************************)
EXTENDS Integers, Sequences, FiniteSets, TLC

VARIABLES hosts, dit, made, last, calc,
          table, chosts, heap, sessions, closed, clast, edits

\* the state of a Connection and of the host table it was built from
convars == <<table, chosts, heap, sessions, closed, clast, edits>>

vars == <<hosts, dit, made, last, calc, convars>>

(***************************************************************************)
(* Bounds of the model.                                                    *)
(***************************************************************************)
\* longest input string of the codec checks, counted in pieces
MaxPieces == 3
\* largest size argument of read
MaxSize == 3
\* largest offset argument of read
MaxOffset == 2
\* how many successful mkdir calls are remembered
MaxMade == 1
\* how many connections ldap.initialize hands out in one run
MaxCons == 3
\* how many changes the caller makes to its host table after Connection()
MaxEdits == 1

(***************************************************************************)
(* Python string primitives.                                               *)
(***************************************************************************)
\* os.path.sep
Sep == "/"

StartsWith(s, p) ==
    Len(s) >= Len(p) /\ SubSeq(s, 1, Len(p)) = p

EndsWith(s, p) ==
    Len(s) >= Len(p) /\ SubSeq(s, Len(s) - Len(p) + 1, Len(s)) = p

\* str.replace(old, new): left to right, non-overlapping; old is not empty
RECURSIVE Replace(_, _, _)
Replace(s, old, new) ==
    IF s = <<>> THEN <<>>
    ELSE IF StartsWith(s, old)
         THEN new \o Replace(SubSeq(s, Len(old) + 1, Len(s)), old, new)
         ELSE <<Head(s)>> \o Replace(Tail(s), old, new)

\* does old occur in s
Contains(s, old) ==
    \E i \in 1..(Len(s) - Len(old) + 1) : SubSeq(s, i, i + Len(old) - 1) = old

\* s.split(sep)[0]: what precedes the first occurrence of sep, all of s
\* when sep does not occur
SplitFirst(s, sep) ==
    IF Contains(s, sep)
    THEN LET i == CHOOSE k \in 1..(Len(s) - Len(sep) + 1) :
                      /\ SubSeq(s, k, k + Len(sep) - 1) = sep
                      /\ \A j \in 1..(k - 1) : SubSeq(s, j, j + Len(sep) - 1) # sep
         IN SubSeq(s, 1, i - 1)
    ELSE s

\* s.split(c) for a one-character separator c: always at least one element
RECURSIVE SplitChar(_, _)
SplitChar(s, c) ==
    IF \E i \in 1..Len(s) : s[i] = c
    THEN LET i == CHOOSE k \in 1..Len(s) :
                      s[k] = c /\ \A j \in 1..(k - 1) : s[j] # c
         IN <<SubSeq(s, 1, i - 1)>> \o SplitChar(SubSeq(s, i + 1, Len(s)), c)
    ELSE <<s>>

\* s.strip(chars)
RECURSIVE LStrip(_, _)
LStrip(s, chars) ==
    IF s # <<>> /\ Head(s) \in chars THEN LStrip(Tail(s), chars) ELSE s

RECURSIVE RStrip(_, _)
RStrip(s, chars) ==
    IF s # <<>> /\ s[Len(s)] \in chars
    THEN RStrip(SubSeq(s, 1, Len(s) - 1), chars) ELSE s

Strip(s, chars) == RStrip(LStrip(s, chars), chars)

\* sep.join(parts)
RECURSIVE Join(_, _)
Join(parts, sep) ==
    IF parts = <<>> THEN <<>>
    ELSE IF Len(parts) = 1 THEN parts[1]
    ELSE parts[1] \o sep \o Join(Tail(parts), sep)

\* reversed(parts)
Reverse(parts) == [i \in 1..Len(parts) |-> parts[Len(parts) + 1 - i]]

\* s[a:b] of Python for a >= 0, b >= 0
Slice(s, a, b) ==
    LET hi == IF b < Len(s) THEN b ELSE Len(s)
    IN IF a >= hi THEN <<>> ELSE SubSeq(s, a + 1, hi)

\* concatenation of a sequence of strings
RECURSIVE Flatten(_)
Flatten(ss) == IF ss = <<>> THEN <<>> ELSE Head(ss) \o Flatten(Tail(ss))

\* the sum of a sequence of numbers
RECURSIVE SumSeq(_)
SumSeq(ns) == IF ns = <<>> THEN 0 ELSE Head(ns) + SumSeq(Tail(ns))

(***************************************************************************)
(* name.py and ldapdn.py: the two escape codecs.                           *)
(***************************************************************************)
\* the token of DN.escape_path
DNSentinel == <<"%", "%", "-", "p", "a", "t", "h", "-", "s", "e", "p", "-", "%", "%">>

\* the token of ldapdn.escape_path
LdapdnSentinel == <<"%", "2", "F">>

\* DN.escape_path
DN_escape_path(path) == Replace(path, <<Sep>>, DNSentinel)

\* an unescape that replaces the first token only
DN_unescape_first(path) ==
    IF Contains(path, DNSentinel)
    THEN LET head == SplitFirst(path, DNSentinel)
         IN head \o <<Sep>> \o SubSeq(path, Len(head) + Len(DNSentinel) + 1, Len(path))
    ELSE path

\* DN.unescape_path
DN_unescape_path(path) == Replace(path, DNSentinel, <<Sep>>)

\* an escape that writes the token in lower case
escape_path_lower(path) == Replace(path, <<Sep>>, <<"%", "2", "f">>)

\* ldapdn.escape_path
escape_path(path) == Replace(path, <<Sep>>, LdapdnSentinel)

\* ldapdn.unescape_path
unescape_path(path) == Replace(path, LdapdnSentinel, <<Sep>>)

(***************************************************************************)
(* The DN grammar check that ldap.dn.explode_dn performs for the code: a   *)
(* DN is a comma-separated list of RDNs type=value; a backslash escapes    *)
(* the following character.                                                *)
(***************************************************************************)
Comma == ","

Backslash == "\\"

\* characters a backslash may precede in a DN string
EscapableChars == {",", "\\", "=", "+"}

\* characters that cannot occur in an attribute type
SpecialChars == {",", "\\", "=", "+", "/", "%", " ", "\n", "."}

\* the RDNs of a DN string: split at every comma no backslash precedes
RECURSIVE SplitRDNs(_, _)
SplitRDNs(s, cur) ==
    IF s = <<>> THEN <<cur>>
    ELSE IF Head(s) = Backslash
         THEN IF Len(s) >= 2
              THEN SplitRDNs(SubSeq(s, 3, Len(s)), cur \o <<s[1], s[2]>>)
              ELSE <<cur \o <<Backslash>>>>
         ELSE IF Head(s) = Comma
              THEN <<cur>> \o SplitRDNs(Tail(s), <<>>)
              ELSE SplitRDNs(Tail(s), cur \o <<Head(s)>>)

\* every backslash of a value is followed by an escapable character
RECURSIVE EscapesOk(_)
EscapesOk(v) ==
    IF v = <<>> THEN TRUE
    ELSE IF Head(v) = Backslash
         THEN Len(v) >= 2 /\ v[2] \in EscapableChars
              /\ EscapesOk(SubSeq(v, 3, Len(v)))
         ELSE EscapesOk(Tail(v))

\* type=value with a non-empty type of ordinary characters
ValidRDN(r) ==
    \E i \in 2..Len(r) :
        /\ r[i] = "="
        /\ \A j \in 1..(i - 1) : r[j] \notin SpecialChars
        /\ EscapesOk(SubSeq(r, i + 1, Len(r)))

\* ldap.dn.explode_dn(dn) does not raise DECODING_ERROR
explode_dn_ok(dn) ==
    dn = <<>> \/ LET rdns == SplitRDNs(dn, <<>>)
                 IN \A i \in 1..Len(rdns) : ValidRDN(rdns[i])

(***************************************************************************)
(* name.py: class DN.                                                      *)
(***************************************************************************)
\* DN.__init__: ok is FALSE when InvalidDN is raised, none is TRUE when
\* self.dn is None (empty parts)
DN_init(parts) ==
    IF parts # <<>>
    THEN LET dn == DN_unescape_path(Join(Reverse(parts), <<Comma>>))
         IN [ok |-> explode_dn_ok(dn), none |-> FALSE, dn |-> dn]
    ELSE [ok |-> TRUE, none |-> TRUE, dn |-> <<>>]

\* DN.create
DN_create(parts) == DN_init(parts)

\* DN.create_parent
DN_create_parent(parts) ==
    DN_init(IF Len(parts) > 1 THEN SubSeq(parts, 1, Len(parts) - 1) ELSE <<>>)

\* the chop of a trailing "," that no backslash precedes
ChopComma(path) ==
    IF EndsWith(path, <<Comma>>)
       /\ ~(Len(path) >= 2 /\ path[Len(path) - 1] = Backslash)
    THEN SubSeq(path, 1, Len(path) - 1)
    ELSE path

\* DN.to_filename(dn, parent_dn) for a non-empty parent_dn
DN_to_filename(dn, parent_dn) ==
    DN_escape_path(ChopComma(SplitFirst(dn, parent_dn)))

(***************************************************************************)
(* ldapdn.py.                                                              *)
(***************************************************************************)
\* ldapdn.list2dn: ok is FALSE when explode_dn raises DECODING_ERROR
list2dn(pathlst, base_dn) ==
    IF pathlst # <<>>
    THEN LET dn == unescape_path(Join(Reverse(pathlst), <<Comma>>))
                   \o <<Comma>> \o base_dn
         IN [ok |-> explode_dn_ok(dn), dn |-> dn]
    ELSE [ok |-> TRUE, dn |-> base_dn]

\* ldapdn.dn2filename(dn, parent_dn) for a non-empty parent_dn
dn2filename(dn, parent_dn) ==
    escape_path(ChopComma(SplitFirst(dn, parent_dn)))

(***************************************************************************)
(* fs.py: the size a Stat reports.  A dictionary of attributes is a        *)
(* sequence of records [k, v] in iteration order with distinct keys k; v   *)
(* is the list of values.  None is the empty sequence (both are falsy).    *)
(***************************************************************************)
DIR_SIZE == 4096

\* Stat._list_size
Stat_list_size(lst) ==
    SumSeq([i \in 1..Len(lst) |-> Len(lst[i])]) + Len(lst)

\* Stat._dict_size
Stat_dict_size(attr_dct) ==
    SumSeq([i \in 1..Len(attr_dct) |->
               Len(attr_dct[i].k) + 1 + Stat_list_size(attr_dct[i].v)])

\* st_size of Stat.__init__(isdir, dct, lst)
Stat_size(isdir, dct, lst) ==
    IF isdir THEN DIR_SIZE
    ELSE (IF dct # <<>> THEN Stat_dict_size(dct) ELSE 0)
         + (IF lst # <<>> THEN Stat_list_size(lst) ELSE 0)

(***************************************************************************)
(* ldapcon.py: class Entry.                                                *)
(***************************************************************************)
\* Entry.ALL_ATTRIBUTES
ALL_ATTRIBUTES == <<"=", "a", "t", "t", "r", "i", "b", "u", "t", "e", "s">>

Newline == "\n"

\* dict membership and dict.get
HasKey(dct, key) == \E i \in 1..Len(dct) : dct[i].k = key

DictGet(dct, key) == dct[CHOOSE i \in 1..Len(dct) : dct[i].k = key].v

\* the lines 'key=v1,v2' of every attribute, joined by newlines
AttrLines(dct) ==
    Join([i \in 1..Len(dct) |->
             dct[i].k \o <<"=">> \o Join(dct[i].v, <<Comma>>)], <<Newline>>)

\* Entry.text: ok is FALSE when AttributeError is raised
Entry_text(attrs, attr_name) ==
    IF attr_name = ALL_ATTRIBUTES
    THEN [ok |-> TRUE,
          text |-> IF attrs # <<>> THEN AttrLines(attrs) \o <<Newline>> ELSE <<>>]
    ELSE IF HasKey(attrs, attr_name) /\ DictGet(attrs, attr_name) # <<>>
         THEN [ok |-> TRUE,
               text |-> Join(DictGet(attrs, attr_name), <<Comma>>) \o <<Newline>>]
         ELSE [ok |-> FALSE, text |-> <<>>]

\* Entry.size: the length of Entry.text, AttributeError passed on
Entry_size(attrs, attr_name) ==
    LET t == Entry_text(attrs, attr_name)
    IN [ok |-> t.ok, size |-> Len(t.text)]

\* Entry.names
Entry_names(attrs) == [i \in 1..Len(attrs) |-> attrs[i].k]

(***************************************************************************)
(* The directory service behind a connection.  A tree is the sequence of   *)
(* its objects [dn, parent, attrs]; search_st answers from it, or raises   *)
(* the error the caller of the model injects (fault).                      *)
(***************************************************************************)
Faults == {"none", "INVALID_DN_SYNTAX", "LDAPError"}

HasObject(tree, dn) == \E i \in 1..Len(tree) : tree[i].dn = dn

ObjectAt(tree, dn) == tree[CHOOSE i \in 1..Len(tree) : tree[i].dn = dn]

\* attrsonly=1 returns the attribute names with no values
AttrsOnly(attrs) == [i \in 1..Len(attrs) |-> [k |-> attrs[i].k, v |-> <<>>]]

\* con.search_st(dn, ldap.SCOPE_BASE, attrsonly): exc names the exception
\* raised ("none": a result [(dn, attrs)] is returned)
search_base(tree, dn, attrsonly, fault) ==
    IF fault # "none" THEN [exc |-> fault, attrs |-> <<>>]
    ELSE IF HasObject(tree, dn)
         THEN [exc |-> "none",
               attrs |-> IF attrsonly THEN AttrsOnly(ObjectAt(tree, dn).attrs)
                         ELSE ObjectAt(tree, dn).attrs]
         ELSE [exc |-> "NO_SUCH_OBJECT", attrs |-> <<>>]

\* con.search_st(dn, ldap.SCOPE_ONELEVEL, attrsonly=1): the DNs of the
\* immediate children
search_onelevel(tree, dn, fault) ==
    IF fault # "none" THEN [exc |-> fault, dns |-> <<>>]
    ELSE IF HasObject(tree, dn)
         THEN LET kids == SelectSeq(tree, LAMBDA o : o.parent = dn)
              IN [exc |-> "none", dns |-> [i \in 1..Len(kids) |-> kids[i].dn]]
         ELSE [exc |-> "NO_SUCH_OBJECT", dns |-> <<>>]

(***************************************************************************)
(* ldapfs.py: class LdapFS.                                                *)
(***************************************************************************)
ATTRIBUTES_FILENAME == <<".", "a", "t", "t", "r", "i", "b", "u", "t", "e", "s">>

\* LdapFS._path2list
path2list(path) == SplitChar(Strip(path, {Sep, " "}), Sep)

\* fs.entry_size(dct): the size of the all-attributes file
entry_size(dct) ==
    SumSeq([i \in 1..Len(dct) |->
               Len(dct[i].k) + 1
               + SumSeq([j \in 1..Len(dct[i].v) |-> Len(dct[i].v[j])])
               + Len(dct[i].v)])

\* fs.attr_size(attr): the size of the file of one attribute
attr_size(attr) == SumSeq([j \in 1..Len(attr) |-> Len(attr[j])]) + Len(attr)

\* what a callback hands back to FUSE: kind is "ENOENT" (-errno.ENOENT),
\* "dir" or "file" (an fs.Stat), "data" (the string of read), "entries"
\* (the names readdir yields) or "zero" (the integer 0); text is the whole
\* string read builds before it slices it
Ret(kind, size, data, entries, text) ==
    [kind |-> kind, size |-> size, data |-> data, entries |-> entries, text |-> text]

ENOENT == Ret("ENOENT", 0, <<>>, <<>>, <<>>)

StatDir == Ret("dir", DIR_SIZE, <<>>, <<>>, <<>>)

StatFile(size) == Ret("file", size, <<>>, <<>>, <<>>)

\* a callback that lets an exception escape to FUSE
Raise == Ret("raise", 0, <<>>, <<>>, <<>>)

\* the outcome of a callback: what it returns, how many searches it sent
\* to the directory service, whether it logged above debug level, and the
\* exceptions its lookups raised, in order
OutExc(ret, nsearch, errlog, excs) ==
    [ret |-> ret, nsearch |-> nsearch, errlog |-> errlog, excs |-> excs]

\* an outcome with no exception raised
Out(ret, nsearch, errlog) == OutExc(ret, nsearch, errlog, <<>>)

\* the exception classes of python-ldap: each is a subclass of ldap.LDAPError
LDAPErrors == {"DECODING_ERROR", "NO_SUCH_OBJECT", "INVALID_DN_SYNTAX", "LDAPError"}

\* isinstance(exc, ldap.LDAPError)
IsLDAPError(exc) == exc \in LDAPErrors

\* what an except clause does: act is "fall" (continue below the try),
\* "ENOENT" (return -errno.ENOENT), "return" (end the listing) or "raise"
\* (no clause matches); log is the level of its log call
Handled(act, log) == [act |-> act, log |-> log]

\* a log level above debug
Elevated(log) == log # "debug"

\* LdapFS.getattr, lines 177-185: the except clauses of the object lookup
getattr_except_object(exc) ==
    IF exc = "DECODING_ERROR" THEN Handled("fall", "debug")
    ELSE IF exc \in {"NO_SUCH_OBJECT", "INVALID_DN_SYNTAX"} THEN Handled("fall", "debug")
    ELSE IF IsLDAPError(exc) THEN Handled("ENOENT", "debug")
    ELSE Handled("raise", "none")

\* the parent lookup without its last except clause
getattr_except_no_generic(exc) ==
    IF exc = "DECODING_ERROR" THEN Handled("ENOENT", "debug")
    ELSE IF exc = "NO_SUCH_OBJECT" THEN Handled("ENOENT", "debug")
    ELSE Handled("raise", "none")

\* LdapFS.getattr, lines 202-211: the except clauses of the parent lookup
getattr_except_parent(exc) ==
    IF exc = "DECODING_ERROR" THEN Handled("ENOENT", "debug")
    ELSE IF exc = "NO_SUCH_OBJECT" THEN Handled("ENOENT", "debug")
    ELSE IF IsLDAPError(exc) THEN Handled("ENOENT", "debug")
    ELSE Handled("raise", "none")

\* LdapFS.readdir, lines 270-275
readdir_except(exc) ==
    IF exc = "DECODING_ERROR" THEN Handled("return", "debug")
    ELSE IF IsLDAPError(exc) THEN Handled("return", "error")
    ELSE Handled("raise", "none")

\* LdapFS.read, lines 324-332
read_except(exc) ==
    IF exc = "DECODING_ERROR" THEN Handled("ENOENT", "debug")
    ELSE IF exc \in {"NO_SUCH_OBJECT", "INVALID_DN_SYNTAX"} THEN Handled("ENOENT", "debug")
    ELSE IF IsLDAPError(exc) THEN Handled("ENOENT", "debug")
    ELSE Handled("raise", "none")

\* the outcome of a try block whose lookup raised exc, as its clause h
\* decides; before holds the exceptions raised earlier in the callback
Caught(h, exc, nsearch, before) ==
    OutExc(IF h.act = "raise" THEN Raise
           ELSE IF h.act = "return" THEN Ret("entries", 0, <<>>, <<>>, <<>>)
           ELSE ENOENT,
           nsearch, Elevated(h.log), before \o <<exc>>)

\* the keys of a dictionary in iteration order
RECURSIVE SetToSeq(_)
SetToSeq(S) ==
    IF S = {} THEN <<>>
    ELSE LET x == CHOOSE y \in S : TRUE IN <<x>> \o SetToSeq(S \ {x})

\* a membership test that compares lengths only
InList_length(x, lst) == \E i \in 1..Len(lst) : Len(lst[i]) = Len(x)

\* base_dn in base_dns
InList(x, lst) == \E i \in 1..Len(lst) : lst[i] = x

\* LdapFS.getattr, lines 193-226: the attribute of the parent object
getattr_parent(tree, pathlst, base_dn, n1, f2, before) ==
    LET filename == pathlst[Len(pathlst)]
        pd == list2dn(SubSeq(pathlst, 3, Len(pathlst) - 1), base_dn)
        s2 == search_base(tree, pd.dn, FALSE, f2)
        exc2 == IF ~pd.ok THEN "DECODING_ERROR" ELSE s2.exc
        n2 == IF pd.ok THEN n1 + 1 ELSE n1
    IN IF exc2 # "none" THEN Caught(getattr_except_parent(exc2), exc2, n2, before)
       ELSE IF filename = ATTRIBUTES_FILENAME
            THEN OutExc(StatFile(entry_size(s2.attrs)), n2, FALSE, before)
            ELSE IF HasKey(s2.attrs, filename) /\ DictGet(s2.attrs, filename) # <<>>
                 THEN OutExc(StatFile(attr_size(DictGet(s2.attrs, filename))), n2, FALSE, before)
                 ELSE OutExc(ENOENT, n2, FALSE, before)

\* LdapFS.getattr
getattr(hs, dt, path, f1, f2) ==
    LET pathlst == path2list(path)
    IN IF pathlst = <<>> THEN Out(ENOENT, 0, FALSE)
       ELSE IF pathlst = <<<<>>>> THEN Out(StatDir, 0, FALSE)
       ELSE IF pathlst[1] \notin DOMAIN hs THEN Out(ENOENT, 0, FALSE)
       ELSE IF Len(pathlst) = 1 THEN Out(StatDir, 0, FALSE)
       ELSE IF ~InList(pathlst[2], hs[pathlst[1]].base_dns) THEN Out(ENOENT, 0, FALSE)
       ELSE LET base_dn == pathlst[2]
                tree == dt[pathlst[1]]
                d == list2dn(SubSeq(pathlst, 3, Len(pathlst)), base_dn)
                s1 == search_base(tree, d.dn, TRUE, f1)
                n1 == IF d.ok THEN 1 ELSE 0
                exc1 == IF ~d.ok THEN "DECODING_ERROR" ELSE s1.exc
                h1 == getattr_except_object(exc1)
            IN IF exc1 = "none" THEN Out(StatDir, 1, FALSE)
               ELSE IF h1.act # "fall" THEN Caught(h1, exc1, n1, <<>>)
               ELSE IF Len(pathlst) = 2 THEN OutExc(ENOENT, n1, FALSE, <<exc1>>)
               ELSE getattr_parent(tree, pathlst, base_dn, n1, f2, <<exc1>>)

\* LdapFS.readdir, lines 260-275: the listing of an object
readdir_object(tree, pathlst, base_dn, f1, f2) ==
    LET dirents == <<<<".">>, <<".", ".">>, ATTRIBUTES_FILENAME>>
        d == list2dn(SubSeq(pathlst, 3, Len(pathlst)), base_dn)
        base == search_base(tree, d.dn, TRUE, f1)
        entries == search_onelevel(tree, d.dn, f2)
    IN IF ~d.ok
            THEN Caught(readdir_except("DECODING_ERROR"), "DECODING_ERROR", 0, <<>>)
       ELSE IF base.exc # "none"
            THEN Caught(readdir_except(base.exc), base.exc, 1, <<>>)
       ELSE IF entries.exc # "none"
            THEN Caught(readdir_except(entries.exc), entries.exc, 2, <<>>)
       ELSE Out(Ret("entries", 0, <<>>,
                    dirents \o Entry_names(base.attrs)
                    \o [i \in 1..Len(entries.dns) |-> dn2filename(entries.dns[i], d.dn)],
                    <<>>), 2, FALSE)

\* a listing that leaves out all but one of the hosts
readdir_root_one(hs) ==
    <<<<".">>, <<".", ".">>>>
    \o (IF DOMAIN hs = {} THEN <<>> ELSE <<CHOOSE h \in DOMAIN hs : TRUE>>)

\* LdapFS.readdir, lines 231 and 237-239: the listing of the root
readdir_root(hs) == <<<<".">>, <<".", ".">>>> \o SetToSeq(DOMAIN hs)

\* LdapFS.readdir: entries is empty when the generator returns before its
\* yield loop
readdir(hs, dt, path, f1, f2) ==
    LET pathlst == path2list(path)
        dirents == <<<<".">>, <<".", ".">>>>
        nothing == Ret("entries", 0, <<>>, <<>>, <<>>)
    IN IF pathlst = <<>> THEN Out(nothing, 0, FALSE)
       ELSE IF pathlst = <<<<>>>>
            THEN Out(Ret("entries", 0, <<>>, readdir_root(hs), <<>>), 0, FALSE)
       ELSE IF pathlst[1] \notin DOMAIN hs THEN Out(nothing, 0, FALSE)
       ELSE IF Len(pathlst) = 1
            THEN Out(Ret("entries", 0, <<>>, dirents \o hs[pathlst[1]].base_dns, <<>>), 0, FALSE)
       ELSE IF ~InList(pathlst[2], hs[pathlst[1]].base_dns) THEN Out(nothing, 0, FALSE)
       ELSE readdir_object(dt[pathlst[1]], pathlst, pathlst[2], f1, f2)

\* LdapFS.read, line 342: the text of the '.attributes' file
read_all_text(dct) == AttrLines(dct) \o <<Newline>>

\* LdapFS.read, line 345: the text of one attribute
read_attr_text(vals) == Join(vals, <<Comma>>) \o <<Newline>>

\* LdapFS.read, lines 343 and 346: retval[offset:size]
read_slice(retval, size, offset) == Slice(retval, offset, size)

\* a length test that lets the two-component paths through
read_no_file_host(pathlst) == Len(pathlst) < 2

\* LdapFS.read, line 300: there are no files in the first two directories
read_no_file(pathlst) == Len(pathlst) < 3

\* LdapFS.read
read(hs, dt, path, size, offset, f1) ==
    LET pathlst == path2list(path)
    IN IF read_no_file(pathlst) THEN Out(ENOENT, 0, FALSE)
       ELSE IF pathlst[1] \notin DOMAIN hs THEN Out(ENOENT, 0, FALSE)
       ELSE IF ~InList(pathlst[2], hs[pathlst[1]].base_dns) THEN Out(ENOENT, 0, FALSE)
       ELSE LET base_dn == pathlst[2]
                d == list2dn(SubSeq(pathlst, 3, Len(pathlst) - 1), base_dn)
                s == search_base(dt[pathlst[1]], d.dn, FALSE, f1)
                filename == pathlst[Len(pathlst)]
                exc == IF ~d.ok THEN "DECODING_ERROR" ELSE s.exc
            IN IF exc # "none"
                    THEN Caught(read_except(exc), exc, IF d.ok THEN 1 ELSE 0, <<>>)
               ELSE IF filename = ATTRIBUTES_FILENAME
                    THEN LET retval == read_all_text(s.attrs)
                         IN Out(Ret("data", 0, read_slice(retval, size, offset), <<>>, retval),
                                1, FALSE)
               ELSE IF HasKey(s.attrs, filename)
                    THEN LET retval == read_attr_text(DictGet(s.attrs, filename))
                         IN Out(Ret("data", 0, read_slice(retval, size, offset), <<>>, retval),
                                1, FALSE)
               ELSE Out(ENOENT, 1, FALSE)

\* LdapFS.mkdir
mkdir(path) == Out(Ret("zero", 0, <<>>, <<>>, <<>>), 0, FALSE)

\* LdapFS.mknod
mknod(path) == Out(Ret("zero", 0, <<>>, <<>>, <<>>), 0, FALSE)

(***************************************************************************)
(* name.py: class Path.                                                    *)
(***************************************************************************)
\* Python's None: no string is equal to it
None == <<"None">>

\* posixpath.split: head is everything before the last separator, without
\* its trailing separators unless it is made of separators only
os_path_split(p) ==
    LET seps == {k \in 1..Len(p) : p[k] = Sep}
        i == IF seps = {} THEN 0 ELSE CHOOSE k \in seps : \A j \in seps : j <= k
        head == SubSeq(p, 1, i)
        tail == SubSeq(p, i + 1, Len(p))
    IN [head |-> IF head # <<>> /\ (\E k \in 1..Len(head) : head[k] # Sep)
                 THEN RStrip(head, {Sep}) ELSE head,
        tail |-> tail]

\* dn_parts without the base DN component
Path_dn_parts_tail(parts) == SubSeq(parts, 3, Len(parts))

\* Path.__init__, line 25: self.parts[1:][:]
Path_dn_parts(parts) == SubSeq(parts, 2, Len(parts))

\* Path.__init__
Path_init(fspath, hs) ==
    LET sp == os_path_split(fspath)
        parts == SplitChar(Strip(fspath, {Sep, " "}), Sep)
        len == Len(parts)
        has_host == len >= 1 /\ parts[1] \in DOMAIN hs
        has_base == has_host /\ len >= 2 /\ InList(parts[2], hs[parts[1]].base_dns)
    IN [fspath |-> fspath, dirpart |-> sp.head, filepart |-> sp.tail,
        parts |-> parts, len |-> len,
        host |-> IF has_host THEN parts[1] ELSE None,
        base_dn |-> IF has_base THEN parts[2] ELSE None,
        dn_parts |-> IF has_base THEN Path_dn_parts(parts) ELSE <<>>]

\* Path.is_root_path
Path_is_root_path(path) == path.parts = <<<<>>>>

\* Path.has_host_part
Path_has_host_part(path) == path.host # None

\* Path.has_base_dn_part
Path_has_base_dn_part(path) == path.base_dn # None

(***************************************************************************)
(* The inputs of the callbacks: host tables, directory trees and paths.    *)
(***************************************************************************)
HostH == <<"h">>

HostG == <<"g">>

BaseDN == <<"o", "=", "a">>

OtherBase == <<"o", "=", "z">>

\* a child whose RDN starts with the text of its parent's DN
RdnAB == <<"o", "=", "a", "b">>

\* the file name of the child c=/x
RdnEsc == <<"c", "=", "%", "2", "F", "x">>

AttrCn == <<"c", "n">>

AttrSn == <<"s", "n">>

NewDir == <<"n", "d">>

Obj(dn, parent, attrs) == [dn |-> dn, parent |-> parent, attrs |-> attrs]

Attr(k, v) == [k |-> k, v |-> v]

\* no object at all
TreeEmpty == <<>>

\* the base object alone, with no attribute
TreeBare == <<Obj(BaseDN, <<>>, <<>>)>>

\* the base object with a one-valued attribute and an attribute without values
TreeAttrs ==
    <<Obj(BaseDN, <<>>, <<Attr(AttrCn, <<<<"a", "l">>>>), Attr(AttrSn, <<>>)>>)>>

\* the base object with two children
TreeKids ==
    <<Obj(BaseDN, <<>>, <<Attr(AttrCn, <<<<"a">>, <<"b", "c">>>>)>>),
      Obj(RdnAB \o <<Comma>> \o BaseDN, BaseDN, <<Attr(AttrCn, <<<<"x">>>>)>>),
      Obj(<<"c", "=", "/", "x", ",">> \o BaseDN, BaseDN, <<>>)>>

Trees == {TreeEmpty, TreeBare, TreeAttrs, TreeKids}

HostConf(base_dns) == [base_dns |-> base_dns]

\* self.hosts after _apply_config and fsinit: no host, one host, two hosts
HostTables ==
    {[x \in {} |-> HostConf(<<>>)],
     [x \in {HostH} |-> HostConf(<<BaseDN>>)],
     [x \in {HostH, HostG} |-> HostConf(<<BaseDN>>)]}

Leaves == {RdnAB, RdnEsc, AttrCn, AttrSn, NewDir, ATTRIBUTES_FILENAME}

PathLists ==
    {<<>>, <<HostH>>, <<HostG>>,
     <<HostH, BaseDN>>, <<HostH, OtherBase>>, <<HostG, BaseDN>>,
     <<HostH, OtherBase, AttrCn>>, <<HostG, BaseDN, AttrCn>>}
    \cup {<<HostH, BaseDN, c>> : c \in Leaves}
    \cup {<<HostH, BaseDN, c, d>> : c \in {RdnAB, RdnEsc},
                                    d \in {AttrCn, NewDir, ATTRIBUTES_FILENAME}}

\* the path FUSE passes for a list of components
MkPath(lst) == <<Sep>> \o Join(lst, <<Sep>>)

Paths == {MkPath(lst) : lst \in PathLists}

\* the record of the last callback: its arguments, the injected faults and
\* its outcome
Call(op, path, size, offset, f1, f2, out) ==
    [op |-> op, path |-> path, size |-> size, offset |-> offset,
     f1 |-> f1, f2 |-> f2, ret |-> out.ret, nsearch |-> out.nsearch,
     errlog |-> out.errlog, excs |-> out.excs]

NoCall == Call("none", <<>>, 0, 0, "none", "none", Out(ENOENT, 0, FALSE))

NoCalc == [fn |-> "none"]

\* the object that a path of three or more components names its parent
ParentExists(hs, dt, path) ==
    LET pathlst == path2list(path)
    IN /\ Len(pathlst) >= 3
       /\ pathlst[1] \in DOMAIN hs
       /\ InList(pathlst[2], hs[pathlst[1]].base_dns)
       /\ LET pd == list2dn(SubSeq(pathlst, 3, Len(pathlst) - 1), pathlst[2])
          IN pd.ok /\ HasObject(dt[pathlst[1]], pd.dn)

\* the object a path names exists in the directory service
ObjectExists(hs, dt, path) ==
    LET pathlst == path2list(path)
    IN /\ Len(pathlst) >= 2
       /\ pathlst[1] \in DOMAIN hs
       /\ InList(pathlst[2], hs[pathlst[1]].base_dns)
       /\ LET d == list2dn(SubSeq(pathlst, 3, Len(pathlst)), pathlst[2])
          IN d.ok /\ HasObject(dt[pathlst[1]], d.dn)

(***************************************************************************)
(* ldapcon.py: class Connection.  A host table is a dictionary from host   *)
(* names to dictionaries of settings; heap holds those inner               *)
(* dictionaries, and a table holds references into it.  sessions is the    *)
(* sequence of the connection objects ldap.initialize has handed out.      *)
(***************************************************************************)
\* the inner dictionary has no key 'con'
NoCon == 0

\* the settings of a host
HostValues(host) ==
    [port |-> IF host = HostH THEN 389 ELSE 636,
     ldap_trace_level |-> IF host = HostH THEN 0 ELSE 1,
     bind_dn |-> <<"c", "n", "=">> \o host,
     bind_password |-> <<"p", "w">> \o host,
     con |-> NoCon]

\* the orders in which a dictionary with the keys S can be iterated
Orders(S) ==
    {o \in [1..Cardinality(S) -> S] : \A i, j \in 1..Cardinality(S) : i # j => o[i] # o[j]}

\* values.get('con') of the host's inner dictionary
ConOf(ch, vs, host) == vs[ch[host]].con

\* the hosts whose inner dictionary holds a connection
Connected(ch, vs) == {h \in DOMAIN ch : ConOf(ch, vs, h) # NoCon}

\* the hosts of a Connection and what it shares: the heap and the sessions
ConState(vs, ss, exc, unbinds) ==
    [vals |-> vs, sessions |-> ss, exc |-> exc, unbinds |-> unbinds]

\* no _connect fails
NoFail == [host |-> None, exc |-> "none"]

\* a _connect that binds to the default port whatever the settings say
connect_default_port(host, values) ==
    [host |-> host, uri |-> <<host, 389>>, trace_level |-> values.ldap_trace_level,
     bind_dn |-> values.bind_dn, bind_password |-> values.bind_password,
     bound |-> TRUE]

\* Connection._connect: ldap.initialize and simple_bind_s with the host's
\* settings; the new session is the next one of sessions
connect(host, values) ==
    [host |-> host, uri |-> <<host, values.port>>, trace_level |-> values.ldap_trace_level,
     bind_dn |-> values.bind_dn, bind_password |-> values.bind_password,
     bound |-> TRUE]

\* Connection._connect, lines 79-82: the exception raised for the one
\* ldap.initialize or simple_bind_s raised
connect_except(exc) ==
    IF exc = "INVALID_DN_SYNTAX" THEN "InvalidDN"
    ELSE IF IsLDAPError(exc) THEN "LdapException"
    ELSE exc

\* Connection.open: the loop over self.hosts.iteritems(), in the order
\* given; fail names the host whose _connect fails, and the exception
\* python-ldap raises there
RECURSIVE open(_, _, _, _)
open(ch, st, order, fail) ==
    IF order = <<>> THEN st
    ELSE LET host == Head(order)
             ref == ch[host]
         IN IF fail.host = host
            THEN ConState(st.vals, st.sessions, connect_except(fail.exc), <<>>)
            ELSE open(ch,
                      ConState([st.vals EXCEPT ![ref].con = Len(st.sessions) + 1],
                               Append(st.sessions, connect(host, st.vals[ref])),
                               "none", <<>>),
                      Tail(order), fail)

\* a close that gives up at the first unbind that raises
RECURSIVE close_stop(_, _, _, _)
close_stop(ch, st, order, bad) ==
    IF order = <<>> THEN st
    ELSE LET host == Head(order)
             ref == ch[host]
             con == st.vals[ref].con
         IN IF con = NoCon THEN close_stop(ch, st, Tail(order), bad)
            ELSE IF host \in bad
                 THEN ConState(st.vals, st.sessions, "none",
                               Append(st.unbinds, [host |-> host, con |-> con]))
            ELSE close_stop(ch,
                            ConState([st.vals EXCEPT ![ref].con = NoCon],
                                     [st.sessions EXCEPT ![con].bound = FALSE],
                                     "none",
                                     Append(st.unbinds, [host |-> host, con |-> con])),
                            Tail(order), bad)

\* Connection.close: the loop over self.hosts.iteritems(), in the order
\* given; bad holds the hosts whose unbind raises ldap.LDAPError
RECURSIVE close(_, _, _, _)
close(ch, st, order, bad) ==
    IF order = <<>> THEN st
    ELSE LET host == Head(order)
             ref == ch[host]
             con == st.vals[ref].con
         IN IF con = NoCon THEN close(ch, st, Tail(order), bad)
            ELSE close(ch,
                       ConState([st.vals EXCEPT ![ref].con = NoCon],
                                [st.sessions EXCEPT ![con].bound = (host \in bad)],
                                "none",
                                Append(st.unbinds, [host |-> host, con |-> con])),
                       Tail(order), bad)

\* the entries a search returns: Entry(dn, attrs) for each result
SearchResult(exc, entries) == [exc |-> exc, entries |-> entries]

\* except clauses in which ldap.LDAPError comes before ldap.NO_SUCH_OBJECT
search_except_generic_first(exc) ==
    IF exc = "INVALID_DN_SYNTAX" THEN "InvalidDN"
    ELSE IF IsLDAPError(exc) THEN "LdapException"
    ELSE exc

\* Connection._search, lines 134-140: the exception raised for the one
\* search_st raised
search_except(exc) ==
    IF exc = "INVALID_DN_SYNTAX" THEN "InvalidDN"
    ELSE IF exc = "NO_SUCH_OBJECT" THEN "NoSuchObject"
    ELSE IF IsLDAPError(exc) THEN "LdapException"
    ELSE exc

\* Connection._search
search(ch, vs, tree, host, dn, children, attrsonly, fault) ==
    IF host \notin DOMAIN ch THEN SearchResult("NoSuchHost", <<>>)
    ELSE IF ConOf(ch, vs, host) = NoCon THEN SearchResult("NoSuchHost", <<>>)
    ELSE IF children
         THEN LET r == search_onelevel(tree, dn, fault)
              IN IF r.exc # "none" THEN SearchResult(search_except(r.exc), <<>>)
                 ELSE SearchResult("none",
                          [i \in 1..Len(r.dns) |->
                              [dn |-> r.dns[i],
                               attrs |-> IF attrsonly
                                         THEN AttrsOnly(ObjectAt(tree, r.dns[i]).attrs)
                                         ELSE ObjectAt(tree, r.dns[i]).attrs]])
         ELSE LET r == search_base(tree, dn, attrsonly, fault)
              IN IF r.exc # "none" THEN SearchResult(search_except(r.exc), <<>>)
                 ELSE SearchResult("none", <<[dn |-> dn, attrs |-> r.attrs]>>)

\* Connection.exists: ldap.SCOPE_BASE is 0, so children is false
exists(ch, vs, tree, host, dn, fault) ==
    LET r == search(ch, vs, tree, host, dn, FALSE, TRUE, fault)
    IN IF r.exc = "none" THEN [exc |-> "none", value |-> TRUE]
       ELSE IF r.exc = "NoSuchObject" THEN [exc |-> "none", value |-> FALSE]
       ELSE [exc |-> r.exc, value |-> FALSE]

\* Connection.get
get(ch, vs, tree, host, dn, attrsonly, fault) ==
    LET r == search(ch, vs, tree, host, dn, FALSE, attrsonly, fault)
    IN IF r.exc = "none" THEN [exc |-> "none", value |-> r.entries[1]]
       ELSE [exc |-> r.exc, value |-> <<>>]

\* Connection.get_children
get_children(ch, vs, tree, host, dn, attrsonly, fault) ==
    LET r == search(ch, vs, tree, host, dn, TRUE, attrsonly, fault)
    IN [exc |-> r.exc, value |-> r.entries]

\* no operation of the Connection was called yet
NoConOp == [op |-> "none"]

\* a file system without a Connection
NoConnection ==
    /\ table = [x \in {} |-> x]
    /\ chosts = [x \in {} |-> x]
    /\ heap = [x \in {} |-> HostValues(x)]
    /\ sessions = <<>>
    /\ closed = FALSE
    /\ clast = NoConOp
    /\ edits = 0

(***************************************************************************)
(* The file system: FUSE calls one callback at a time (multithreaded = 0). *)
(* made is history: the paths for which mkdir returned success while the   *)
(* parent object existed.                                                  *)
(***************************************************************************)
Init ==
    /\ hosts \in HostTables
    /\ \E t \in Trees : dit = [x \in DOMAIN hosts |-> IF x = HostH THEN t ELSE TreeAttrs]
    /\ made = {}
    /\ last = NoCall
    /\ calc = NoCalc
    /\ NoConnection

\* FUSE is between two callbacks
Idle == last.op = "none"

GetAttr(path, f1, f2) ==
    /\ Idle
    /\ last' = Call("getattr", path, 0, 0, f1, f2, getattr(hosts, dit, path, f1, f2))
    /\ UNCHANGED <<convars, hosts, dit, made, calc>>

ReadDir(path, f1, f2) ==
    /\ Idle
    /\ last' = Call("readdir", path, 0, 0, f1, f2, readdir(hosts, dit, path, f1, f2))
    /\ UNCHANGED <<convars, hosts, dit, made, calc>>

Read(path, size, offset, f1) ==
    /\ Idle
    /\ last' = Call("read", path, size, offset, f1, "none",
                    read(hosts, dit, path, size, offset, f1))
    /\ UNCHANGED <<convars, hosts, dit, made, calc>>

MkDir(path) ==
    /\ Idle
    /\ last' = Call("mkdir", path, 0, 0, "none", "none", mkdir(path))
    /\ made' = IF /\ mkdir(path).ret.kind = "zero"
                  /\ ParentExists(hosts, dit, path)
                  /\ Cardinality(made) < MaxMade
               THEN made \cup {path} ELSE made
    /\ UNCHANGED <<convars, hosts, dit, calc>>

MkNod(path) ==
    /\ Idle
    /\ last' = Call("mknod", path, 0, 0, "none", "none", mknod(path))
    /\ UNCHANGED <<convars, hosts, dit, made, calc>>

\* the callback has returned to FUSE: its path and result are dropped
Return ==
    /\ ~Idle
    /\ last' = NoCall
    /\ UNCHANGED <<convars, hosts, dit, made, calc>>

Next ==
    \/ \E path \in Paths, f1 \in Faults, f2 \in Faults : GetAttr(path, f1, f2)
    \/ \E path \in Paths, f1 \in Faults, f2 \in Faults : ReadDir(path, f1, f2)
    \/ \E path \in Paths, size \in 0..MaxSize, offset \in 0..MaxOffset, f1 \in Faults :
           Read(path, size, offset, f1)
    \/ \E path \in Paths : MkDir(path)
    \/ \E path \in Paths : MkNod(path)
    \/ Return

Spec == Init /\ [][Next]_vars

(***************************************************************************)
(* The codecs and the Entry and Stat computations are pure functions:      *)
(* each is applied once to an input drawn from a bounded set, and calc     *)
(* records the input and the result.                                       *)
(***************************************************************************)
\* longest list of values of an attribute
MaxVals == 2
\* most attributes of an entry
MaxAttrs == 2

SeqsUpTo(S, n) == UNION {[1..k -> S] : k \in 0..n}

\* the building blocks of the strings given to the codecs
Pieces ==
    {<<Sep>>, DNSentinel, LdapdnSentinel, <<"a">>, <<"%">>,
     SubSeq(DNSentinel, 1, 12), SubSeq(DNSentinel, 1, 13)}

CodecStrings == {Flatten(ps) : ps \in SeqsUpTo(Pieces, MaxPieces)}

\* RDNs as the directory service returns them
ServerRDNs ==
    {<<"o", "=", "a">>, <<"o", "=", "a", "b">>, <<"c", "=", "/", "x">>,
     <<"c", "=", "x", "\\", ",">>, <<"c", "=", "x", "\\", "\\">>,
     <<"c", "=", "/", "/">>}

\* DNs of the objects under which children are listed
ParentDNs == {<<"o", "=", "a">>, <<"c", "=", "x", ",", "o", "=", "a">>}

\* file name components as FUSE passes them: no path separator in them
FileComponents ==
    {<<"o", "=", "a">>, <<"o", "=", "a", "b">>, <<"c", "=", "x">>,
     <<"c", "=">> \o DNSentinel \o <<"x">>,
     <<"c", "=">> \o LdapdnSentinel \o LdapdnSentinel,
     <<"c", "=", "x", "\\", ",">>, <<"c", "=", "x", "\\", "\\">>, <<"c", "n">>}

\* leading dn_parts: a base DN, or a base DN and one component
Ancestors ==
    {<<b>> : b \in {<<"o", "=", "a">>, <<"c", "=", "x", ",", "o", "=", "a">>}}
    \cup {<<<<"o", "=", "a">>, c>> : c \in {<<"c", "=", "x">>, <<"c", "n">>}}

PureInit ==
    /\ hosts = [x \in {} |-> HostConf(<<>>)]
    /\ dit = [x \in {} |-> TreeEmpty]
    /\ made = {}
    /\ last = NoCall
    /\ calc = NoCalc
    /\ NoConnection

NotApplied == calc.fn = "none"

\* unescape applied to the result of escape, for both codecs
UnescapeEscape(s) ==
    /\ NotApplied
    /\ calc' = [fn |-> "unescape_escape", arg |-> s,
                dn_out |-> DN_unescape_path(DN_escape_path(s)),
                ldapdn_out |-> unescape_path(escape_path(s))]
    /\ UNCHANGED <<convars, hosts, dit, made, last>>

\* escape applied to the result of unescape, for both codecs
EscapeUnescape(s) ==
    /\ NotApplied
    /\ calc' = [fn |-> "escape_unescape", arg |-> s,
                dn_out |-> DN_escape_path(DN_unescape_path(s)),
                ldapdn_out |-> escape_path(unescape_path(s))]
    /\ UNCHANGED <<convars, hosts, dit, made, last>>

\* DN.to_filename and ldapdn.dn2filename of a child of parent
ToFilename(rdn, parent) ==
    /\ NotApplied
    /\ LET dn == rdn \o <<Comma>> \o parent
       IN calc' = [fn |-> "to_filename", rdn |-> rdn, parent |-> parent, dn |-> dn,
                   dn_out |-> DN_to_filename(dn, parent),
                   ldapdn_out |-> dn2filename(dn, parent)]
    /\ UNCHANGED <<convars, hosts, dit, made, last>>

\* the name built from P ++ [c], converted back against the name built from P
RoundTrip(P, c) ==
    /\ NotApplied
    /\ DN_init(P).ok /\ DN_init(P \o <<c>>).ok
    /\ list2dn(Tail(P), P[1]).ok /\ list2dn(Tail(P) \o <<c>>, P[1]).ok
    /\ calc' = [fn |-> "roundtrip", P |-> P, c |-> c,
                dn_out |-> DN_to_filename(DN_init(P \o <<c>>).dn, DN_init(P).dn),
                ldapdn_out |-> dn2filename(list2dn(Tail(P) \o <<c>>, P[1]).dn,
                                           list2dn(Tail(P), P[1]).dn)]
    /\ UNCHANGED <<convars, hosts, dit, made, last>>

CodecNext ==
    \/ \E s \in CodecStrings : UnescapeEscape(s)
    \/ \E s \in CodecStrings : EscapeUnescape(s)
    \/ \E rdn \in ServerRDNs, parent \in ParentDNs : ToFilename(rdn, parent)
    \/ \E P \in Ancestors, c \in FileComponents : RoundTrip(P, c)

SpecCodec == PureInit /\ [][CodecNext]_vars

\* attribute names and values of the entries given to Entry and Stat
AttrKeys == {<<"a">>, AttrCn}

AttrValues == {<<>>, <<"1">>, <<"a", "b">>}

ValueLists == SeqsUpTo(AttrValues, MaxVals)

\* dictionaries: distinct keys, any list of values (attrsonly leaves it empty)
AttrMaps ==
    {m \in SeqsUpTo([k : AttrKeys, v : ValueLists], MaxAttrs) :
        \A i, j \in 1..Len(m) : i # j => m[i].k # m[j].k}

\* the size a Stat reports for the file of key, beside Entry.text of key
EntrySize(attrs, key) ==
    /\ NotApplied
    /\ key = ALL_ATTRIBUTES \/ HasKey(attrs, key)
    /\ calc' = [fn |-> "size", attrs |-> attrs, key |-> key,
                stat |-> IF key = ALL_ATTRIBUTES
                         THEN Stat_size(FALSE, attrs, <<>>)
                         ELSE Stat_size(FALSE, <<>>, DictGet(attrs, key)),
                text |-> Entry_text(attrs, key),
                size |-> Entry_size(attrs, key)]
    /\ UNCHANGED <<convars, hosts, dit, made, last>>

\* Entry.text of any key, present or not, beside the text LdapFS.read
\* builds for the all-attributes file of the same attributes
EntryText(attrs, key) ==
    /\ NotApplied
    /\ calc' = [fn |-> "text", attrs |-> attrs, key |-> key,
                text |-> Entry_text(attrs, key),
                names |-> Entry_names(attrs),
                read |-> read_all_text(attrs)]
    /\ UNCHANGED <<convars, hosts, dit, made, last>>

EntryNext ==
    \/ \E attrs \in AttrMaps, key \in AttrKeys \cup {ALL_ATTRIBUTES} : EntrySize(attrs, key)
    \/ \E attrs \in AttrMaps, key \in AttrKeys \cup {ALL_ATTRIBUTES, AttrSn} :
           EntryText(attrs, key)

SpecEntry == PureInit /\ [][EntryNext]_vars

\* host tables given to Path: no host, one host, two hosts, two base DNs
PathHostTables ==
    HostTables \cup {[x \in {HostH} |-> HostConf(<<OtherBase, BaseDN>>)]}

\* the paths FUSE passes, a file name may end in a space; the same paths
\* with a trailing separator; the empty string
RawPaths ==
    Paths \cup {p \o <<" ">> : p \in Paths} \cup {p \o <<Sep>> : p \in Paths}
    \cup {<<>>, MkPath(<<HostH, <<>>, AttrCn>>)}

\* Path(fspath, hosts)
Classify(fspath, hs) ==
    /\ NotApplied
    /\ calc' = [fn |-> "classify", fspath |-> fspath, hosts |-> hs,
                path |-> Path_init(fspath, hs)]
    /\ UNCHANGED <<convars, hosts, dit, made, last>>

PathNext == \E fspath \in RawPaths, hs \in PathHostTables : Classify(fspath, hs)

SpecPath == PureInit /\ [][PathNext]_vars

\* dict.copy: a new dictionary holding the same inner dictionaries
dict_copy(d) == [k \in DOMAIN d |-> d[k]]

\* the host names of the host tables given to Connection
ConHosts == {HostH, HostG}

\* the DNs looked up through a Connection: two objects and no object
ConDNs == {BaseDN, RdnAB \o <<Comma>> \o BaseDN, OtherBase}

\* the directory every host serves
ConTree == TreeKids

\* the state after con = Connection(table), for a table of 0, 1 or 2 hosts
ConInit ==
    /\ hosts = [x \in {} |-> HostConf(<<>>)]
    /\ dit = [x \in {} |-> TreeEmpty]
    /\ made = {}
    /\ last = NoCall
    /\ calc = NoCalc
    /\ \E H \in {{}, {HostH}, ConHosts} : table = [h \in H |-> h]
    /\ chosts = dict_copy(table)
    /\ heap = [h \in DOMAIN table |-> HostValues(h)]
    /\ sessions = <<>>
    /\ closed = FALSE
    /\ clast = NoConOp
    /\ edits = 0

\* the caller is between two calls of the Connection
ConIdle == clast.op = "none"

\* con.open()
ConOpen(order, fail) ==
    /\ ConIdle
    /\ Len(sessions) + Len(order) <= MaxCons
    /\ LET st == open(chosts, ConState(heap, sessions, "none", <<>>), order, fail)
       IN /\ heap' = st.vals
          /\ sessions' = st.sessions
          /\ clast' = [op |-> "open", exc |-> st.exc, fail |-> fail,
                       before |-> Len(sessions)]
    /\ closed' = FALSE
    /\ UNCHANGED <<hosts, dit, made, last, calc, edits, table, chosts>>

\* con.close(); closed records that no open() was called since
ConClose(order, bad) ==
    /\ ConIdle
    /\ LET st == close(chosts, ConState(heap, sessions, "none", <<>>), order, bad)
       IN /\ heap' = st.vals
          /\ sessions' = st.sessions
          /\ clast' = [op |-> "close", had |-> Connected(chosts, heap),
                       unbinds |-> st.unbinds, bad |-> bad, wasclosed |-> closed]
    /\ closed' = TRUE
    /\ UNCHANGED <<hosts, dit, made, last, calc, edits, table, chosts>>

\* con.exists(host, dn)
ConExists(host, dn, fault) ==
    /\ ConIdle
    /\ LET r == exists(chosts, heap, ConTree, host, dn, fault)
       IN clast' = [op |-> "exists", host |-> host, dn |-> dn, fault |-> fault,
                    exc |-> r.exc, value |-> r.value]
    /\ UNCHANGED <<hosts, dit, made, last, calc, edits, table, chosts, heap, sessions, closed>>

\* con.get(host, dn, attrsonly)
ConGet(host, dn, attrsonly, fault) ==
    /\ ConIdle
    /\ LET r == get(chosts, heap, ConTree, host, dn, attrsonly, fault)
       IN clast' = [op |-> "get", host |-> host, dn |-> dn, fault |-> fault,
                    attrsonly |-> attrsonly, exc |-> r.exc, value |-> r.value]
    /\ UNCHANGED <<hosts, dit, made, last, calc, edits, table, chosts, heap, sessions, closed>>

\* con.get_children(host, dn, attrsonly)
ConGetChildren(host, dn, attrsonly, fault) ==
    /\ ConIdle
    /\ LET r == get_children(chosts, heap, ConTree, host, dn, attrsonly, fault)
       IN clast' = [op |-> "get_children", host |-> host, dn |-> dn, fault |-> fault,
                    attrsonly |-> attrsonly, exc |-> r.exc, value |-> r.value]
    /\ UNCHANGED <<hosts, dit, made, last, calc, edits, table, chosts, heap, sessions, closed>>

\* the inner dictionary the caller makes for a host it adds to its table
NewRef(host) == host \o <<"2">>

\* the caller runs: del hosts[host]
TableDel(host) ==
    /\ ConIdle
    /\ edits < MaxEdits
    /\ host \in DOMAIN table
    /\ table' = [h \in DOMAIN table \ {host} |-> table[h]]
    /\ edits' = edits + 1
    /\ UNCHANGED <<hosts, dit, made, last, calc, chosts, heap, sessions, closed, clast>>

\* the caller runs: hosts[host] = {settings}
TableAdd(host) ==
    /\ ConIdle
    /\ edits < MaxEdits
    /\ host \notin DOMAIN table
    /\ table' = [h \in DOMAIN table \cup {host} |->
                     IF h = host THEN NewRef(host) ELSE table[h]]
    /\ heap' = [r \in DOMAIN heap \cup {NewRef(host)} |->
                    IF r = NewRef(host) THEN HostValues(host) ELSE heap[r]]
    /\ edits' = edits + 1
    /\ UNCHANGED <<hosts, dit, made, last, calc, chosts, sessions, closed, clast>>

\* the caller runs: hosts[host]['port'] = 1389
TableSet(host) ==
    /\ ConIdle
    /\ edits < MaxEdits
    /\ host \in DOMAIN table
    /\ heap' = [heap EXCEPT ![table[host]].port = 1389]
    /\ edits' = edits + 1
    /\ UNCHANGED <<hosts, dit, made, last, calc, table, chosts, sessions, closed, clast>>

\* the call has returned to the caller: its arguments and result are dropped
ConReturn ==
    /\ ~ConIdle
    /\ clast' = NoConOp
    /\ UNCHANGED <<hosts, dit, made, last, calc, edits, table, chosts, heap, sessions, closed>>

\* the _connect failures of one open(): none, or one host and its exception
ConFails ==
    {NoFail} \cup [host : DOMAIN chosts, exc : {"INVALID_DN_SYNTAX", "LDAPError"}]

ConNext ==
    \/ \E order \in Orders(DOMAIN chosts), fail \in ConFails : ConOpen(order, fail)
    \/ \E order \in Orders(DOMAIN chosts), bad \in SUBSET DOMAIN chosts : ConClose(order, bad)
    \/ \E host \in ConHosts, dn \in ConDNs, fault \in Faults : ConExists(host, dn, fault)
    \/ \E host \in ConHosts, dn \in ConDNs, attrsonly \in BOOLEAN, fault \in Faults :
           ConGet(host, dn, attrsonly, fault)
    \/ \E host \in ConHosts, dn \in ConDNs, attrsonly \in BOOLEAN, fault \in Faults :
           ConGetChildren(host, dn, attrsonly, fault)
    \/ \E host \in ConHosts : TableDel(host)
    \/ \E host \in ConHosts : TableAdd(host)
    \/ \E host \in ConHosts : TableSet(host)
    \/ ConReturn

SpecCon == ConInit /\ [][ConNext]_vars

(***************************************************************************)
(* The claims.                                                             *)
(***************************************************************************)
RootPath == <<Sep>>

\* the last callback was sent no injected error
NoFault == last.f1 = "none" /\ last.f2 = "none"

\* the path of the last callback has a configured host and a configured
\* base DN
UnderBase ==
    LET pathlst == path2list(last.path)
    IN /\ Len(pathlst) >= 2
       /\ pathlst[1] \in DOMAIN hosts
       /\ InList(pathlst[2], hosts[pathlst[1]].base_dns)

\* the DN a path under a base DN names, and the DN of its parent
PathDN(path) ==
    LET pathlst == path2list(path)
    IN list2dn(SubSeq(pathlst, 3, Len(pathlst)), pathlst[2]).dn

ParentDN(path) ==
    LET pathlst == path2list(path)
    IN list2dn(SubSeq(pathlst, 3, Len(pathlst) - 1), pathlst[2]).dn

TreeOf(path) == dit[path2list(path)[1]]

FileName(path) == LET pathlst == path2list(path) IN pathlst[Len(pathlst)]

\* the names a listing holds
Listed(entries) == {entries[i] : i \in 1..Len(entries)}

\* C1: once mkdir(p) has returned success for a path p of three or more
\* components whose parent object exists, every later getattr(p) returns
\* directory metadata.
C1_GetattrAfterMkdir ==
    (last.op = "getattr" /\ last.path \in made /\ NoFault)
        => last.ret.kind = "dir"

\* C2: read(path, length, offset) of a pseudo-file returns the rendered text
\* from position offset up to, not including, offset + length.
C2_ReadWindow ==
    (last.op = "read" /\ last.ret.kind = "data")
        => last.ret.data = Slice(last.ret.text, last.offset, last.offset + last.size)

\* what C3 says getattr answers for a path of three or more components
C3_Expected(path) ==
    IF ObjectExists(hosts, dit, path) THEN "dir"
    ELSE IF /\ ParentExists(hosts, dit, path)
            /\ \/ FileName(path) = ATTRIBUTES_FILENAME
               \/ HasKey(ObjectAt(TreeOf(path), ParentDN(path)).attrs, FileName(path))
         THEN "file"
         ELSE "ENOENT"

\* C3: under a configured host and base DN, getattr of a path of three or
\* more components returns directory metadata if the object exists;
\* otherwise file metadata if the parent object exists and the last
\* component is the all-attributes name or an attribute the parent has, and
\* not-found in every other case.
C3_GetattrObject ==
    (last.op = "getattr" /\ UnderBase /\ Len(path2list(last.path)) >= 3 /\ NoFault)
        => last.ret.kind = C3_Expected(last.path)

\* C4: the size a Stat reports for the file of a key equals the length of
\* the text Entry.text renders for that key.
C4_SizeIsTextLength ==
    calc.fn = "size" => (calc.text.ok /\ calc.stat = Len(calc.text.text))

\* C5: the name built from valid dn_parts P ++ [c], converted back to a file
\* name against the name built from P, is c.
C5_RoundTrip ==
    calc.fn = "roundtrip" => (calc.dn_out = calc.c /\ calc.ldapdn_out = calc.c)

\* C6, as first stated: unescape(escape(s)) = s for all strings s, for both
\* codecs.
C6_UnescapeEscapeAll ==
    calc.fn = "unescape_escape"
        => (calc.dn_out = calc.arg /\ calc.ldapdn_out = calc.arg)

\* s holds no '%%-path-sep-%%' and escape cannot complete one: no path
\* separator follows '%%-path-sep-' or '%%-path-sep-%'
DNTokenFree(s) ==
    /\ ~Contains(s, DNSentinel)
    /\ ~Contains(s, SubSeq(DNSentinel, 1, 12) \o <<Sep>>)
    /\ ~Contains(s, SubSeq(DNSentinel, 1, 13) \o <<Sep>>)

\* C6: unescape(escape(s)) = s for every string s that does not hold the
\* sentinel token of the codec (and, for '%%-path-sep-%%', in which no path
\* separator follows '%%-path-sep-' or '%%-path-sep-%').
C6_UnescapeEscape ==
    calc.fn = "unescape_escape"
        => /\ DNTokenFree(calc.arg) => calc.dn_out = calc.arg
           /\ ~Contains(calc.arg, LdapdnSentinel) => calc.ldapdn_out = calc.arg

\* a string with two adjacent path separators and no token went through both
\* codecs
C6_Witness ==
    /\ calc.fn = "unescape_escape"
    /\ Contains(calc.arg, <<Sep, Sep>>)
    /\ DNTokenFree(calc.arg)
    /\ ~Contains(calc.arg, LdapdnSentinel)

\* C7, as first stated: escape(unescape(s)) = s for all strings s, for both
\* codecs.
C7_EscapeUnescapeAll ==
    calc.fn = "escape_unescape"
        => (calc.dn_out = calc.arg /\ calc.ldapdn_out = calc.arg)

\* C7: escape(unescape(s)) = s for every string s that holds no path
\* separator, for both codecs.
C7_EscapeUnescape ==
    (calc.fn = "escape_unescape" /\ ~Contains(calc.arg, <<Sep>>))
        => (calc.dn_out = calc.arg /\ calc.ldapdn_out = calc.arg)

\* a string with two adjacent tokens of each codec and no path separator
\* went through both codecs
C7_Witness ==
    /\ calc.fn = "escape_unescape"
    /\ ~Contains(calc.arg, <<Sep>>)
    /\ Contains(calc.arg, DNSentinel \o DNSentinel)
    /\ Contains(calc.arg, LdapdnSentinel)

\* name with the suffix ancestor taken off, then one trailing "," taken off
\* unless a backslash precedes it
C8_Remainder(name, ancestor) ==
    LET r == SubSeq(name, 1, Len(name) - Len(ancestor))
    IN IF r # <<>> /\ r[Len(r)] = Comma /\ ~(Len(r) >= 2 /\ r[Len(r) - 1] = Backslash)
       THEN SubSeq(r, 1, Len(r) - 1)
       ELSE r

\* C8: nameToFilename(name, ancestor) is escape(r), r being name without its
\* suffix ancestor and without one trailing separator that no escape marker
\* precedes.
C8_ToFilename ==
    calc.fn = "to_filename"
        => /\ calc.dn_out = DN_escape_path(C8_Remainder(calc.dn, calc.parent))
           /\ calc.ldapdn_out = escape_path(C8_Remainder(calc.dn, calc.parent))

\* C9: getattr of the root path returns directory metadata, and readdir of
\* the root path lists '.', '..' and exactly the configured host names.
C9_Root ==
    last.path = RootPath
        => /\ last.op = "getattr" => last.ret.kind = "dir"
           /\ last.op = "readdir"
                => /\ Len(last.ret.entries) = 2 + Cardinality(DOMAIN hosts)
                   /\ last.ret.entries[1] = <<".">>
                   /\ last.ret.entries[2] = <<".", ".">>
                   /\ {last.ret.entries[i] : i \in 3..Len(last.ret.entries)}
                          = DOMAIN hosts

\* readdir of the root path has answered with two hosts configured
C9_Witness ==
    /\ last.op = "readdir"
    /\ last.path = RootPath
    /\ Cardinality(DOMAIN hosts) = 2
    /\ Len(last.ret.entries) = 4

\* the file name of a child of the object dn: its escaped RDN
C10_ChildName(child_dn, dn) ==
    escape_path(SubSeq(child_dn, 1, Len(child_dn) - Len(dn) - 1))

\* C10: readdir of a path whose object exists lists the all-attributes name,
\* every attribute name of the object and the escaped name of every
\* immediate child.
C10_ReaddirObject ==
    (last.op = "readdir" /\ NoFault /\ ObjectExists(hosts, dit, last.path))
        => LET tree == TreeOf(last.path)
               dn == PathDN(last.path)
               obj == ObjectAt(tree, dn)
               names == Listed(last.ret.entries)
           IN /\ ATTRIBUTES_FILENAME \in names
              /\ \A i \in 1..Len(obj.attrs) : obj.attrs[i].k \in names
              /\ \A i \in 1..Len(tree) :
                     tree[i].parent = dn => C10_ChildName(tree[i].dn, dn) \in names

\* C11: read on a path with fewer than three components (the root, a host,
\* a base DN) returns not-found whatever the host table and the directory
\* hold, and sends no search to the directory service.
C11_ReadShortPath ==
    (last.op = "read" /\ Len(path2list(last.path)) < 3)
        => (last.ret = ENOENT /\ last.nsearch = 0)

\* a read of /host/base-dn where both are configured and the object exists
C11_Witness ==
    /\ last.op = "read"
    /\ Len(path2list(last.path)) = 2
    /\ ObjectExists(hosts, dit, last.path)
    /\ last.f1 = "none"
    /\ last.ret = ENOENT

\* the components of the parent of a path
ParentList(path) == SubSeq(path2list(path), 1, Len(path2list(path)) - 1)

\* the parent of the path is known: its object exists in the directory
\* service, or a directory was made in it or as it before
ParentKnown(path) ==
    \/ ParentExists(hosts, dit, path)
    \/ \E m \in made : ParentList(m) = ParentList(path) \/ path2list(m) = ParentList(path)

\* C12: mkdir rejects a path of fewer than three components with EPERM and
\* a path whose parent is neither made before nor an existing object with
\* EINVAL or ENOENT; it returns success only for a path of three or more
\* components whose parent is known.
C12_MkdirRejects ==
    last.op = "mkdir"
        => LET n == Len(path2list(last.path))
           IN /\ n < 3 => last.ret.kind = "EPERM"
              /\ (n >= 3 /\ ~ParentKnown(last.path)) => last.ret.kind \in {"EINVAL", "ENOENT"}
              /\ last.ret.kind = "zero" => (n >= 3 /\ ParentKnown(last.path))

\* C13: mknod returns EPERM for a path of fewer than three components and
\* for a last component other than the all-attributes file name; it
\* succeeds only for the all-attributes file name.
C13_MknodRejects ==
    last.op = "mknod"
        => LET pathlst == path2list(last.path)
               n == Len(pathlst)
           IN /\ (n < 3 \/ pathlst[n] # ATTRIBUTES_FILENAME) => last.ret.kind = "EPERM"
              /\ last.ret.kind = "zero" => (n >= 3 /\ pathlst[n] = ATTRIBUTES_FILENAME)

\* the exceptions the lookups of the last callback raised
Raised == {last.excs[i] : i \in 1..Len(last.excs)}

C15_TransportLogged ==
    (last.op \in {"getattr", "readdir", "read"} /\ last.excs # <<>>)
        => (last.errlog <=> "LDAPError" \in Raised)

\* C16: classification sets host exactly when the first component is a key
\* of the host table, sets the base DN exactly when host is set and the
\* second component is in that host's base DN list, and sets dn_parts to the
\* components from the base DN onward exactly when the base DN is set and
\* to the empty list otherwise; so a base DN implies a host, and dn_parts is
\* non-empty exactly when the base DN is set.
C16_Classify ==
    calc.fn = "classify"
        => LET p == calc.path
               parts == p.parts
               hs == calc.hosts
               first_is_host == parts[1] \in DOMAIN hs
               second_is_base == /\ first_is_host
                                 /\ Len(parts) >= 2
                                 /\ InList(parts[2], hs[parts[1]].base_dns)
           IN /\ Path_has_host_part(p) <=> first_is_host
              /\ Path_has_host_part(p) => p.host = parts[1]
              /\ Path_has_base_dn_part(p) <=> second_is_base
              /\ Path_has_base_dn_part(p) => p.base_dn = parts[2]
              /\ p.dn_parts = IF Path_has_base_dn_part(p)
                              THEN SubSeq(parts, 2, Len(parts)) ELSE <<>>
              /\ Path_has_base_dn_part(p) => Path_has_host_part(p)
              /\ (p.dn_parts # <<>>) <=> Path_has_base_dn_part(p)

\* a path of a configured host and base DN with one more component
C16_Witness ==
    /\ calc.fn = "classify"
    /\ calc.path.host = HostH
    /\ calc.path.base_dn = BaseDN
    /\ calc.path.dn_parts = <<BaseDN, AttrCn>>

\* the components of dirpart
C17_DirComponents(dirpart) == SelectSeq(SplitChar(dirpart, Sep), LAMBDA c : c # <<>>)

\* C17: filepart is the last element of parts, and dirpart names exactly
\* the components of parts before it.
C17_DirFile ==
    calc.fn = "classify"
        => LET p == calc.path
           IN /\ p.filepart = p.parts[Len(p.parts)]
              /\ C17_DirComponents(p.dirpart) = SubSeq(p.parts, 1, Len(p.parts) - 1)

\* C18: an attribute that is present in the mapping with an empty value
\* list is not treated like an absent one: Entry.text raises the
\* no-such-attribute error only for a key that is not in the mapping.
C18_EmptyIsNotAbsent ==
    (calc.fn = "text" /\ calc.key # ALL_ATTRIBUTES)
        => (calc.text.ok <=> HasKey(calc.attrs, calc.key))

\* one line name=v1,v2,... and a newline for each attribute
C19_AllLines(attrs) ==
    Flatten([i \in 1..Len(attrs) |->
                attrs[i].k \o <<"=">> \o Join(attrs[i].v, <<Comma>>) \o <<Newline>>])

\* C19: Entry.text of the all-attributes key is one newline-terminated line
\* name=v1,v2,... for each attribute in order, the empty string for an
\* empty mapping, and is the text read serves for the all-attributes file;
\* of a key in the mapping it is v1,v2,... and a newline; of a key not in
\* the mapping it is the no-such-attribute error.
C19_Text ==
    calc.fn = "text"
        => IF calc.key = ALL_ATTRIBUTES
           THEN /\ calc.text.ok
                /\ calc.text.text = C19_AllLines(calc.attrs)
                /\ calc.read = calc.text.text
           ELSE IF HasKey(calc.attrs, calc.key)
           THEN /\ calc.text.ok
                /\ calc.text.text
                       = Join(DictGet(calc.attrs, calc.key), <<Comma>>) \o <<Newline>>
           ELSE ~calc.text.ok

\* C20: close() calls unbind once for every host that holds a connection
\* and for no other, also when an unbind raises, and leaves no host with a
\* connection; a close() after a close() calls no unbind; until the next
\* open(), exists, get and get_children fail with NoSuchHost.
C20_Close ==
    /\ clast.op = "close"
           => /\ {clast.unbinds[i].host : i \in 1..Len(clast.unbinds)} = clast.had
              /\ Len(clast.unbinds) = Cardinality(clast.had)
              /\ Connected(chosts, heap) = {}
              /\ clast.wasclosed => clast.unbinds = <<>>
    /\ closed => Connected(chosts, heap) = {}
    /\ (closed /\ clast.op \in {"exists", "get", "get_children"})
           => clast.exc = "NoSuchHost"

\* a close() of two connections whose first unbind raised
C20_Witness ==
    /\ clast.op = "close"
    /\ Len(clast.unbinds) = 2
    /\ clast.unbinds[1].host \in clast.bad
    /\ Connected(chosts, heap) = {}

\* the sessions the last open() created
C21_New == {i \in 1..Len(sessions) : i > clast.before}

\* C21: an open() that returns has initialised and bound one connection for
\* each configured host, with that host's address, port, trace level, bind
\* DN and bind password, and every configured host holds its connection;
\* a lookup on a host that holds a connection never fails with NoSuchHost.
C21_Open ==
    /\ (clast.op = "open" /\ clast.exc = "none")
           => /\ Cardinality(C21_New) = Cardinality(DOMAIN chosts)
              /\ \A h \in DOMAIN chosts :
                     /\ ConOf(chosts, heap, h) \in C21_New
                     /\ LET s == sessions[ConOf(chosts, heap, h)]
                            v == heap[chosts[h]]
                        IN /\ s.host = h
                           /\ s.uri = <<h, v.port>>
                           /\ s.trace_level = v.ldap_trace_level
                           /\ s.bind_dn = v.bind_dn
                           /\ s.bind_password = v.bind_password
                           /\ s.bound
    /\ (clast.op \in {"exists", "get", "get_children"}
            /\ clast.host \in Connected(chosts, heap))
           => clast.exc # "NoSuchHost"

\* an open() of two hosts after an open() that failed at its second host
C21_Witness ==
    /\ clast.op = "open"
    /\ clast.exc = "none"
    /\ clast.before = 1
    /\ Connected(chosts, heap) = ConHosts

\* the caller's host table as the caller reads it
C22_TableView == [h \in DOMAIN table |-> heap[table[h]]]

\* Connection.hosts as the Connection reads it
C22_HostsView == [h \in DOMAIN chosts |-> heap[chosts[h]]]

\* C22: a change the caller makes to its host table after Connection(hosts)
\* (a host removed or added, a setting of a host changed) leaves
\* Connection.hosts as it was, and open() and close() leave the caller's
\* table as it was.
C22_OwnCopy ==
    [][/\ (edits' # edits) => (C22_HostsView' = C22_HostsView)
       /\ (clast'.op \in {"open", "close"}) => (C22_TableView' = C22_TableView)]_vars

\* what the directory service answers to the last lookup
C23_Answer ==
    IF clast.fault # "none" THEN clast.fault
    ELSE IF HasObject(ConTree, clast.dn) THEN "none"
    ELSE "NO_SUCH_OBJECT"

\* the outcome of a lookup: NoSuchHost without a configured host holding a
\* connection, else the exception that stands for the answer
C23_Outcome ==
    IF clast.host \notin Connected(chosts, heap) THEN "NoSuchHost"
    ELSE IF C23_Answer = "INVALID_DN_SYNTAX" THEN "InvalidDN"
    ELSE IF C23_Answer = "NO_SUCH_OBJECT" THEN "NoSuchObject"
    ELSE IF C23_Answer = "none" THEN "none"
    ELSE "LdapException"

C24_Mismatch(hs, path) ==
    LET pathlst == path2list(path)
    IN /\ pathlst # <<>>
       /\ pathlst # <<<<>>>>
       /\ \/ pathlst[1] \notin DOMAIN hs
          \/ /\ Len(pathlst) >= 2
             /\ \A i \in 1..Len(hs[pathlst[1]].base_dns) :
                    hs[pathlst[1]].base_dns[i] # pathlst[2]

\* C24: for a path whose host is not configured or whose base DN is not one
\* of its host's, getattr and read return not-found and readdir yields no
\* entry, no search is sent to the directory service, and the host table,
\* the directory, the connections and the remembered directories stay as
\* they were.
C24_Unresolved ==
    [][(Idle /\ last'.op \in {"getattr", "read", "readdir"}
             /\ C24_Mismatch(hosts, last'.path))
           => /\ last'.op \in {"getattr", "read"} => last'.ret = ENOENT
              /\ last'.op = "readdir"
                     => last'.ret.kind = "entries" /\ last'.ret.entries = <<>>
              /\ last'.nsearch = 0
              /\ last'.excs = <<>>
              /\ ~last'.errlog
              /\ UNCHANGED <<hosts, dit, made, convars>>]_vars

\* a read below a base DN that a configured host does not have
C24_Witness ==
    /\ last.op = "read"
    /\ last.path = MkPath(<<HostH, OtherBase, AttrCn>>)
    /\ HostH \in DOMAIN hosts
    /\ C24_Mismatch(hosts, last.path)
    /\ last.ret = ENOENT

\* os.path.join(d, name) for a directory path d
C25_Join(d, name) == IF d = <<Sep>> THEN d \o name ELSE d \o <<Sep>> \o name

\* the names of a listing other than '.' and '..'
C25_Names(entries) == Listed(entries) \ {<<".">>, <<".", ".">>}

\* C25: every name that readdir lists for a directory, other than '.' and
\* '..', resolves: getattr on the directory joined with the name returns
\* directory or file metadata, never not-found.
C25_ListedResolve ==
    (last.op = "readdir" /\ NoFault)
        => \A name \in C25_Names(last.ret.entries) :
               getattr(hosts, dit, C25_Join(last.path, name), "none", "none").ret.kind
                   \in {"dir", "file"}

\* what getattr answers for the path of the last callback
C26_Stat == getattr(hosts, dit, last.path, "none", "none").ret.kind

\* what read answers for the path of the last callback
C26_Content == read(hosts, dit, last.path, last.size, last.offset, "none").ret.kind

\* C26: for a path of three or more components that getattr does not
\* report as a directory, getattr returns file metadata exactly when read
\* returns content, and not-found exactly when read returns not-found.
C26_StatMatchesRead ==
    (last.op \in {"getattr", "read"} /\ NoFault
         /\ Len(path2list(last.path)) >= 3 /\ C26_Stat # "dir")
        => /\ C26_Stat = "file" <=> C26_Content = "data"
           /\ C26_Stat = "ENOENT" <=> C26_Content = "ENOENT"

=============================================================================
